---- MODULE Spec2Model ----
(***************************************************************************)
(* Remote-failure capture and replay of parsl/app/errors.py:               *)
(*   wrap_error(func)            the capture side (runs on the worker)     *)
(*   RemoteExceptionWrapper      the transportable snapshot of a failure   *)
(*   RemoteExceptionWrapper.reraise / get_exception   the replay side      *)
(*                                                                         *)
(* Exception objects and wrapper objects live in two heaps (sequences      *)
(* indexed by object identity); index 0 stands for None.                   *)
(***************************************************************************)
EXTENDS Naturals, Sequences, FiniteSets

VARIABLES pc, call, exc, wrp, ret, trace, sig, replays

vars == <<pc, call, exc, wrp, ret, trace, sig, replays>>

----------------------------------------------------------------------------
(* Bounds of the model *)

\* longest cause chain a work unit raises
MaxChain == 4
\* longest cause chain of a wrapper that arrives from the transport
MaxRecvChain == 4
\* nested calls the interpreter allows before it raises RecursionError
\* (sys.getrecursionlimit(), scaled down)
RecursionLimit == 3
\* how often one wrapper is replayed
MaxReplays == 2

----------------------------------------------------------------------------
(* Failure taxonomy *)

\* classes of errors.py that derive from Exception through ParslError
ParslError == {"AppTimeout", "BashExitFailure"}

\* failure types the submitting process can name: the taxonomy of errors.py
KnownKinds == ParslError

\* a failure class defined by the work unit's own script, unknown to errors.py
UserKinds == {"RemoteOnlyError"}

\* BaseException subclasses that are not Exception subclasses
ExitKinds == {"KeyboardInterrupt"}

Kinds == ParslError \cup UserKinds \cup ExitKinds

\* issubclass(kind, Exception): what the clause `except Exception` matches
IsException(kind) == kind \in ParslError \cup UserKinds

\* the failure values K(payload) a work unit constructs
FailureValues ==
    { [kind |-> "AppTimeout", args |-> <<"walltime">>],
      [kind |-> "BashExitFailure", args |-> <<"app", "1">>],
      [kind |-> "BashExitFailure", args |-> <<"app", "2">>],
      [kind |-> "RemoteOnlyError", args |-> <<"msg">>],
      [kind |-> "KeyboardInterrupt", args |-> <<>>] }

Args == {"a1", "a2"}
Funcs == {"identity", "const"}

\* func(*args, **kwargs) of a work unit that completes normally
FuncResult(f, args) == IF f = "identity" THEN args ELSE "done"

----------------------------------------------------------------------------
(* Values *)

NoCall == [tag |-> "none", f |-> "", args |-> "", chain |-> <<>>, back |-> 0]
NoRet  == [tag |-> "none", val |-> "", w |-> 0, kind |-> ""]
NoSig  == [tag |-> "none", obj |-> 0, kind |-> "", args |-> <<>>, tb |-> <<>>]

\* e_traceback = None
NoToken == [present |-> FALSE, frames |-> <<>>, ok |-> TRUE]

\* the frame that the raise statement of six.reraise adds to a traceback
LocalFrame == 0

\* tblib.Traceback(tb): the transportable form of a traceback
Traceback(tb) ==
    [present |-> TRUE,
     frames  |-> [i \in 1..Len(tb) |-> [tb_lineno |-> tb[i]]],
     ok      |-> TRUE]

\* Traceback.as_traceback(): the frames rebuilt from a token that decodes
as_traceback(token) == [i \in 1..Len(token.frames) |-> token.frames[i].tb_lineno]

----------------------------------------------------------------------------
(* The work unit's failure: link i of the chain is exception object i.     *)
(* Link i has __cause__ i+1; the last link has __cause__ None, or, for a   *)
(* cyclic chain, an earlier link `back`.  A link that was raised has a     *)
(* traceback; a cause that was only constructed has __traceback__ None.    *)

RaisedHeap(chain, back) ==
    [i \in 1..Len(chain) |->
        [kind  |-> chain[i].kind,
         args  |-> chain[i].args,
         cause |-> IF i < Len(chain) THEN i + 1 ELSE back,
         tb    |-> IF chain[i].trace = "tb" THEN <<i>> ELSE <<>>]]

\* sequences over S of length 1..n
SeqsUpTo(S, n) == UNION { [1..k -> S] : k \in 1..n }

Link(fv, tr) == [kind |-> fv.kind, args |-> fv.args, trace |-> tr]

UnitLinks == { Link(fv, tr) : fv \in FailureValues, tr \in {"tb", "none"} }

\* the chains a unit can raise: the failure that propagates out of func has
\* been raised, so sys.exc_info() reports a traceback for it
UnitChains == { ch \in SeqsUpTo(UnitLinks, MaxChain) : ch[1].trace = "tb" }

\* sys.exc_info() in the handler: (type(e), e, e.__traceback__)
exc_info(E, e) == [e_type |-> E[e].kind, e_value |-> e, traceback |-> E[e].tb]

----------------------------------------------------------------------------
(* RemoteExceptionWrapper.__init__ *)

\* a constructor that never looks at e_value.__cause__
WrapperFieldsNoCause(e_type, e_value, traceback, cause) ==
    [e_type      |-> e_type,
     e_value     |-> e_value,
     e_traceback |-> IF traceback = <<>> THEN NoToken ELSE Traceback(traceback),
     cause       |-> 0]

\* the fields one constructor call assigns
WrapperFields(e_type, e_value, traceback, cause) ==
    [e_type      |-> e_type,
     e_value     |-> e_value,
     e_traceback |-> IF traceback = <<>> THEN NoToken ELSE Traceback(traceback),
     cause       |-> cause]

\* The constructor called at nesting depth `depth`, storing the new object at
\* heap index `at`; it calls itself for e_value.__cause__ with no test other
\* than `is None`, so the interpreter's recursion limit is what ends the walk
\* of a cyclic or very deep chain: the call then raises RecursionError.
RECURSIVE RemoteExceptionWrapper(_, _, _, _, _, _)
RemoteExceptionWrapper(E, e_type, e_value, traceback, depth, at) ==
    IF depth > RecursionLimit
    THEN [err |-> TRUE, objs |-> <<>>]
    ELSE IF E[e_value].cause = 0
    THEN [err |-> FALSE,
          objs |-> << WrapperFields(e_type, e_value, traceback, 0) >>]
    ELSE LET cause == E[e_value].cause
             sub   == RemoteExceptionWrapper(E, E[cause].kind, cause, E[cause].tb,
                                             depth + 1, at + 1)
         IN  IF sub.err
             THEN sub
             ELSE [err |-> FALSE,
                   objs |-> << WrapperFields(e_type, e_value, traceback, at + 1) >>
                            \o sub.objs]

----------------------------------------------------------------------------
(* wrap_error: the wrapper around one invocation of func *)

\* a wrapper that forgets the `return` in front of func(*args, **kwargs)
ReturnValueDropped(r) == [tag |-> "value", val |-> "None", w |-> 0, kind |-> ""]

\* what the wrapper hands back when func completed normally
ReturnValue(r) == [tag |-> "value", val |-> r, w |-> 0, kind |-> ""]

\* what the wrapper does with a failure e that func raised
HandleFailure(E, e) ==
    IF ~IsException(E[e].kind)
    THEN \* not matched by `except Exception`: the failure propagates
         [ret |-> [tag |-> "raise", val |-> "", w |-> 0, kind |-> E[e].kind],
          wrp |-> <<>>]
    ELSE LET i == exc_info(E, e)
             built == RemoteExceptionWrapper(E, i.e_type, i.e_value, i.traceback, 1, 1)
         IN  IF built.err
             THEN \* raised inside the handler: nothing catches it
                  [ret |-> [tag |-> "raise", val |-> "", w |-> 0,
                            kind |-> "RecursionError"],
                   wrp |-> <<>>]
             ELSE [ret |-> [tag |-> "wrapper", val |-> "", w |-> 1, kind |-> ""],
                   wrp |-> built.objs]

\* wrapper(*args, **kwargs) for a call c of a work unit
wrapper(c) ==
    IF c.tag = "return"
    THEN [ret |-> ReturnValue(FuncResult(c.f, c.args)), exc |-> <<>>, wrp |-> <<>>]
    ELSE LET E == RaisedHeap(c.chain, c.back)
             h == HandleFailure(E, 1)
         IN  [ret |-> h.ret, exc |-> E, wrp |-> h.wrp]

----------------------------------------------------------------------------
(* RemoteExceptionWrapper.get_exception and reraise *)

Event(op, w, kind) == [op |-> op, w |-> w, kind |-> kind]

\* logger.debug("Reraising exception of type {}".format(self.e_type))
LogRecord(W, w) == Event("log", w, W[w].e_type)

\* v.__cause__ = <the failure rebuilt for self.cause>
SetCause(E, v, c) == [E EXCEPT ![v].cause = c]

\* v.with_traceback(tb): sets v.__traceback__ and returns v itself
with_traceback(E, v, tb) == [E EXCEPT ![v].tb = tb]

\* get_exception of wrapper w at nesting depth `depth`.  The result names the
\* failure object v it returns, the exception heap as the call left it and the
\* steps it took, in order.  A token that does not decode makes as_traceback
\* raise; nothing in get_exception or reraise catches that.
RECURSIVE get_exception(_, _, _, _)
get_exception(W, E, w, depth) ==
    IF depth > RecursionLimit
    THEN [status |-> "RecursionError", v |-> 0, exc |-> E, steps |-> <<>>]
    ELSE
    LET v     == W[w].e_value
        enter == << Event("enter", w, "") >>
        sub   == IF W[w].cause # 0
                 THEN get_exception(W, E, W[w].cause, depth + 1)
                 ELSE [status |-> "ok", v |-> 0, exc |-> E, steps |-> <<>>]
    IN  IF sub.status # "ok"
        THEN [sub EXCEPT !.steps = enter \o @]
        ELSE
        LET E1 == IF W[w].cause # 0 THEN SetCause(sub.exc, v, sub.v) ELSE sub.exc
            s1 == enter \o sub.steps \o
                  (IF W[w].cause # 0 THEN << Event("link", w, "") >> ELSE <<>>)
        IN  IF W[w].e_traceback.present
            THEN IF W[w].e_traceback.ok
                 THEN [status |-> "ok", v |-> v,
                       exc    |-> with_traceback(E1, v, as_traceback(W[w].e_traceback)),
                       steps  |-> s1 \o << Event("attach", w, "") >>]
                 ELSE [status |-> "TracebackError", v |-> 0, exc |-> E1,
                       steps  |-> s1 \o << Event("decode_failed", w, "") >>]
            ELSE [status |-> "ok", v |-> v, exc |-> E1, steps |-> s1]

\* a reraise that signals a new instance tp() in place of the stored value
six_reraise_new_instance(E, tp, value, tb) ==
    [exc |-> E,
     sig |-> [tag |-> "exc", obj |-> value, kind |-> tp, args |-> <<>>, tb |-> tb]]

\* six.reraise(tp, value, tb) with a value that is not None: tp is not used;
\* the value is given the traceback tb and raised, and the raise statement
\* puts its own frame in front of the traceback.
six_reraise(E, tp, value, tb) ==
    LET E1 == with_traceback(E, value, tb)
        E2 == [E1 EXCEPT ![value].tb = <<LocalFrame>> \o @]
    IN  [exc |-> E2,
         sig |-> [tag |-> "exc", obj |-> value, kind |-> E2[value].kind,
                  args |-> E2[value].args, tb |-> E2[value].tb]]

\* a reraise that logs the type only after get_exception returned
ReraiseStepsLogLast(logged, steps) == steps \o << logged >>

\* the order of the steps of reraise: the log record, then get_exception
ReraiseSteps(logged, steps) == << logged >> \o steps

\* reraise() of wrapper w
reraise(W, E, w) ==
    LET t == W[w].e_type
        g == get_exception(W, E, w, 1)
    IN  IF g.status = "ok"
        THEN LET r == six_reraise(g.exc, t, g.v, g.exc[g.v].tb)
             IN  [exc   |-> r.exc,
                  sig   |-> r.sig,
                  trace |-> ReraiseSteps(LogRecord(W, w), g.steps)
                            \o << Event("signal", w, r.sig.kind) >>]
        ELSE [exc   |-> g.exc,
              sig   |-> [tag |-> "error", obj |-> 0, kind |-> g.status,
                         args |-> <<>>, tb |-> <<>>],
              trace |-> ReraiseSteps(LogRecord(W, w), g.steps)]

----------------------------------------------------------------------------
(* Wrappers that arrive from the transport.  Unpickling an exception gives a *)
(* new object with class and args and with neither __cause__ nor             *)
(* __traceback__; the token is a Traceback object that decodes (valid) or    *)
(* makes as_traceback raise (bad), or None.                                  *)

\* the failure values of received wrappers: one class of errors.py and one
\* class the submitter does not know
RecvValues == { fv \in FailureValues : fv.kind \in {"AppTimeout", "RemoteOnlyError"} }

RecvLinks == { Link(fv, tr) : fv \in RecvValues, tr \in {"valid", "bad", "none"} }

RecvChains == SeqsUpTo(RecvLinks, MaxRecvChain)

ReceivedExc(chain) ==
    [i \in 1..Len(chain) |->
        [kind |-> chain[i].kind, args |-> chain[i].args, cause |-> 0, tb |-> <<>>]]

ReceivedToken(i, tr) ==
    IF tr = "none" THEN NoToken ELSE [Traceback(<<i>>) EXCEPT !.ok = (tr = "valid")]

ReceivedWrp(chain) ==
    [i \in 1..Len(chain) |->
        [e_type      |-> chain[i].kind,
         e_value     |-> i,
         e_traceback |-> ReceivedToken(i, chain[i].trace),
         cause       |-> IF i < Len(chain) THEN i + 1 ELSE 0]]

----------------------------------------------------------------------------
(* The state machine *)

Init ==
    /\ pc = "idle"
    /\ call = NoCall
    /\ exc = <<>>
    /\ wrp = <<>>
    /\ ret = NoRet
    /\ trace = <<>>
    /\ sig = NoSig
    /\ replays = 0

\* the wrapped unit is called and the wrapper returns or raises
Invoke(c) ==
    /\ pc = "idle"
    /\ LET out == wrapper(c)
       IN  /\ call' = c
           /\ exc' = out.exc
           /\ wrp' = out.wrp
           /\ ret' = out.ret
           /\ pc' = IF out.ret.tag = "raise" THEN "escaped" ELSE "returned"
    /\ UNCHANGED <<trace, sig, replays>>

\* func completes normally
CallReturns ==
    /\ pc = "idle"
    /\ \E f \in Funcs, a \in Args :
        Invoke([tag |-> "return", f |-> f, args |-> a, chain |-> <<>>, back |-> 0])

\* func raises a failure with a cause chain
CallRaises ==
    /\ pc = "idle"
    /\ \E ch \in UnitChains, back \in 0..MaxChain :
        /\ back <= Len(ch)
        /\ Invoke([tag |-> "raise", f |-> "", args |-> "", chain |-> ch, back |-> back])

\* the executor delivers a wrapper that a worker sent
Receive ==
    /\ pc = "idle"
    /\ \E ch \in RecvChains :
        /\ call' = [tag |-> "recv", f |-> "", args |-> "", chain |-> ch, back |-> 0]
        /\ exc' = ReceivedExc(ch)
        /\ wrp' = ReceivedWrp(ch)
    /\ ret' = [tag |-> "wrapper", val |-> "", w |-> 1, kind |-> ""]
    /\ pc' = "received"
    /\ UNCHANGED <<trace, sig, replays>>

\* the submitter finds a wrapper as the result and calls its reraise()
Reraise ==
    /\ pc \in {"returned", "received", "replayed"}
    /\ ret.tag = "wrapper"
    /\ replays < MaxReplays
    /\ LET r == reraise(wrp, exc, ret.w)
       IN  /\ exc' = r.exc
           /\ sig' = r.sig
           /\ trace' = r.trace
    /\ replays' = replays + 1
    /\ pc' = "replayed"
    /\ UNCHANGED <<call, wrp, ret>>

Next == CallReturns \/ CallRaises \/ Receive \/ Reraise

Spec == Init /\ [][Next]_vars

----------------------------------------------------------------------------
(* Views of the state used by the properties *)

\* the kinds along the chain of the failure the unit raised, outermost first
OriginalKinds == [i \in 1..Len(call.chain) |-> call.chain[i].kind]

\* the e_type of wrapper w and of the wrappers its cause fields lead to
RECURSIVE WrapperKinds(_, _, _)
WrapperKinds(W, w, fuel) ==
    IF w = 0 \/ fuel = 0 THEN <<>>
    ELSE << W[w].e_type >> \o WrapperKinds(W, W[w].cause, fuel - 1)

\* the kind of failure v and of the failures its __cause__ fields lead to
RECURSIVE FailureKinds(_, _, _)
FailureKinds(E, v, fuel) ==
    IF v = 0 \/ fuel = 0 THEN <<>>
    ELSE << E[v].kind >> \o FailureKinds(E, E[v].cause, fuel - 1)

\* the frames of a traceback that do not come from the local raise
RemoteFrames(tb) == SelectSeq(tb, LAMBDA f : f # LocalFrame)

\* the positions of the steps of wrapper w with operation op in the trace
Steps(op, w) == { i \in 1..Len(trace) : trace[i].op = op /\ trace[i].w = w }

Replayed == pc = "replayed"

\* the unit raised, the wrapper built a RemoteExceptionWrapper, reraise ran
CapturedAndReplayed == Replayed /\ call.tag = "raise"

----------------------------------------------------------------------------
(* Properties *)

\* C1: the wrapper made by wrap_error never signals: whatever the unit
\* raises, the wrapper returns the result or a RemoteExceptionWrapper.
WrapperNeverSignals == ret.tag # "raise"

\* C2: reraise always ends by signalling the reconstructed original failure
\* (its recorded kind and payload), also when a trace token of the wrapper or
\* of a cause does not decode; a decode failure never replaces it.
ReplaySignalsOriginal ==
    Replayed =>
        /\ sig.tag = "exc"
        /\ sig.kind = wrp[ret.w].e_type
        /\ sig.args = call.chain[1].args

\* C3: chain preservation.  A chain that the walk can follow to its end (no
\* cycle, no longer than the recursion limit) is always captured; the
\* wrapper chain has the original's length and kinds, with cause None at
\* the last link only; the failure that replay signals has the same chain
\* of kinds, also for a wrapper that arrived with unlinked failure values.
ChainPreservation ==
    /\ ( /\ call.tag = "raise"
         /\ IsException(call.chain[1].kind)
         /\ call.back = 0
         /\ Len(call.chain) <= RecursionLimit )
       => ret.tag = "wrapper"
    /\ (call.tag = "raise" /\ ret.tag = "wrapper") =>
        /\ Len(wrp) = Len(call.chain)
        /\ WrapperKinds(wrp, ret.w, Len(wrp) + 1) = OriginalKinds
        /\ \A i \in 1..Len(wrp) : (wrp[i].cause = 0) <=> (i = Len(call.chain))
    /\ CapturedAndReplayed =>
        /\ sig.tag = "exc"
        /\ FailureKinds(exc, sig.obj, Len(exc) + 1) = OriginalKinds
    /\ (Replayed /\ sig.tag = "exc") =>
        FailureKinds(exc, sig.obj, Len(exc) + 1) = WrapperKinds(wrp, ret.w, Len(wrp) + 1)

\* a three-deep chain A from B from C was captured and replayed, and the
\* replayed failure's cause's cause has kind(C)
ThreeDeepReplayed ==
    /\ CapturedAndReplayed
    /\ Len(call.chain) = 3
    /\ sig.tag = "exc"
    /\ call.chain[1].kind # call.chain[3].kind
    /\ exc[exc[exc[sig.obj].cause].cause].kind = call.chain[3].kind
    /\ exc[exc[exc[sig.obj].cause].cause].cause = 0

\* C4: the walk over a cyclic or over-deep cause chain stops at the cap and
\* yields a wrapper whose chain is no longer than the cap plus the marker.
CauseWalkTruncates ==
    ( /\ call.tag = "raise"
      /\ IsException(call.chain[1].kind)
      /\ (call.back # 0 \/ Len(call.chain) > RecursionLimit) )
    => /\ ret.tag = "wrapper"
       /\ Len(wrp) <= RecursionLimit + 1

\* C5: round trip.  The kind recorded at capture is the type of the captured
\* value, and replay of the captured wrapper signals a failure of that kind
\* with the payload the unit raised it with.
RoundTrip ==
    /\ (call.tag = "raise" /\ ret.tag = "wrapper") =>
        /\ wrp[ret.w].e_type = call.chain[1].kind
        /\ exc[wrp[ret.w].e_value].kind = wrp[ret.w].e_type
    /\ CapturedAndReplayed =>
        /\ sig.tag = "exc"
        /\ sig.kind = call.chain[1].kind
        /\ sig.args = call.chain[1].args
        /\ exc[sig.obj].kind = sig.kind
        /\ exc[sig.obj].args = sig.args

\* BashExitFailure("app", "2") went through capture and replay
RoundTripDone ==
    /\ CapturedAndReplayed
    /\ call.chain[1].kind = "BashExitFailure"
    /\ call.chain[1].args = <<"app", "2">>
    /\ sig.kind = "BashExitFailure"

\* C6: replay of a wrapper whose kind is no known local failure type
\* signals an UnknownRemoteFailure.
UnknownKindFallback ==
    (Replayed /\ wrp[ret.w].e_type \notin KnownKinds)
    => (sig.tag = "exc" /\ sig.kind = "UnknownRemoteFailure")

\* C7: the failure that replay signals is a fresh value, not the object
\* stored in the wrapper.
ReplayedFailureIsFresh ==
    (Replayed /\ sig.tag = "exc") => sig.obj # wrp[ret.w].e_value

\* C8: when func completes normally the wrapper returns func's result for
\* the arguments it was called with, and builds no RemoteExceptionWrapper.
PassThrough ==
    (call.tag = "return" /\ pc # "idle") =>
        /\ pc = "returned"
        /\ ret.tag = "value"
        /\ call.f = "identity" => ret.val = call.args
        /\ call.f = "const" => ret.val = "done"
        /\ wrp = <<>>

\* the identity unit was called with a2 and the wrapper returned
PassedThrough ==
    /\ pc = "returned"
    /\ call.tag = "return"
    /\ call.f = "identity"
    /\ call.args = "a2"
    /\ ret.val = "a2"

\* C9: after a replay, every link with a trace token carries the decoded
\* remote trace, and for every link without one the replay succeeded and
\* the link's failure has no remote trace.
TraceAttachment ==
    Replayed =>
        \A i \in 1..Len(wrp) :
            /\ (wrp[i].e_traceback.present /\ wrp[i].e_traceback.ok) =>
                   RemoteFrames(exc[wrp[i].e_value].tb) = as_traceback(wrp[i].e_traceback)
            /\ ~wrp[i].e_traceback.present =>
                   /\ sig.tag = "exc"
                   /\ RemoteFrames(exc[wrp[i].e_value].tb) = <<>>

\* C10: in every run of reraise the log record with the kind is the first
\* step, before any step of get_exception, also in a run that fails later;
\* the cause of a link is entered, rebuilt and linked before the link's own
\* trace is decoded, and the signal is the last step.
ReplayOrdering ==
    Replayed =>
        /\ Len(trace) >= 2
        /\ trace[1] = Event("log", ret.w, wrp[ret.w].e_type)
        /\ \A i \in 2..Len(trace) : trace[i].op # "log"
        /\ \A i \in 1..Len(trace) :
              (trace[i].op = "signal") <=> (i = Len(trace) /\ sig.tag = "exc")
        /\ \A w \in 1..Len(wrp) :
              LET c == wrp[w].cause
                  own == Steps("attach", w) \cup Steps("decode_failed", w)
              IN  c # 0 =>
                    /\ \A j \in own : \E l \in Steps("link", w) : l < j
                    /\ \A l \in Steps("link", w) :
                         /\ \E e \in Steps("enter", c) : e < l
                         /\ \A a \in Steps("attach", c) \cup Steps("link", c) : a < l
                    /\ \A j \in own :
                         \A a \in Steps("attach", c) \cup Steps("decode_failed", c) : a < j

\* a replay that failed at the outer link's token, after the type was
\* logged and the cause was rebuilt, linked and given its trace
LoggedThenFailed ==
    /\ Replayed
    /\ sig.tag = "error"
    /\ Len(wrp) = 2
    /\ trace[1].op = "log"
    /\ Steps("attach", 2) # {}
    /\ Steps("link", 1) # {}
    /\ Steps("decode_failed", 1) # {}

====
